---------------------------- MODULE Spec2Model ----------------------------
(***************************************************************************)
(* Ghost Protocol beacon: the check-in engine of beacon.c and the codec    *)
(* and transport of communication.c, Unix build (the #else branches).      *)
(*                                                                         *)
(* Two specifications share every action but the decoding of a response    *)
(* and the command lines tried:                                            *)
(*   Spec        the program as built: parse_commands_json is the stub of  *)
(*               communication.c:402-416, which yields no command; every   *)
(*               command line of CommandLines is tried;                    *)
(*   SpecEngine  beacon.c driven by check-ins that hand back the command   *)
(*               array the response body carries, so that the dispatch     *)
(*               loop of beacon_main_loop runs on non-empty lists; the     *)
(*               command lines of EngineCommandLines are tried.            *)
(***************************************************************************)
EXTENDS Integers, Sequences, FiniteSets, TLC

VARIABLES
    pc,              \* position of the single thread of control
    g_config,        \* beacon.c:10
    g_running,       \* beacon.c:12
    g_results,       \* beacon.c:13, the slots below the write position
    g_result_count,  \* beacon.c:14
    commands,        \* beacon_main_loop: command_t* commands
    command_count,   \* beacon_main_loop: int command_count
    i,               \* beacon_main_loop: the for loop's index
    checkin_result,  \* beacon_start / beacon_main_loop: int checkin_result
    request,         \* the request on the wire during a check-in
    response,        \* what the last exchange brought back
    slept,           \* arguments of the sleep() calls since the last request
    exit_code        \* process status, -1 while the process runs

vars == << pc, g_config, g_running, g_results, g_result_count, commands,
           command_count, i, checkin_result, request, response, slept,
           exit_code >>

---------------------------------------------------------------------------
(* Program constants                                                       *)

MAX_RESULTS == 64
MAX_URL_LEN == 512
MAX_BUFFER_SIZE == 8192
MAX_OUTPUT_SIZE == 16384
BEACON_ID_LEN == 37
DEFAULT_SLEEP == 60
DEFAULT_JITTER == 10
MAX_JITTER == 50
INT_MAX == 2147483647
HALF_WORD == 65536
FGETS_BUFFER == 1024
HOSTNAME_SIZE == 256
PATH_SIZE == 512

---------------------------------------------------------------------------
(* Bounds of the model                                                     *)

\* Command lists of every length up to MaxCmds over all verbs are tried.
MaxCmds == 2
\* Command lists of MAX_RESULTS - 1 .. MAX_RESULTS + MaxOver entries are tried.
MaxOver == 2

---------------------------------------------------------------------------
(* C integer arithmetic on 32-bit int                                      *)

Abs(x) == IF x < 0 THEN 0 - x ELSE x

\* C99 6.5.5: division truncates toward zero, the remainder has the sign
\* of the dividend.
CDiv(a, b) ==
    IF (a >= 0) = (b > 0) THEN Abs(a) \div Abs(b) ELSE 0 - (Abs(a) \div Abs(b))

CRem(a, b) == a - b * CDiv(a, b)

\* The 32-bit two's complement value with high half h and low half l.
Compose32(h, l) ==
    IF h >= HALF_WORD \div 2 THEN (h - HALF_WORD) * HALF_WORD + l
    ELSE h * HALF_WORD + l

\* a * b reduced modulo 2^32, for |b| < 2^15, computed on half words so that
\* no intermediate value leaves the 32-bit range.
MulWrap32(a, b) ==
    LET ah == a \div HALF_WORD
        al == a % HALF_WORD
        c  == al * b
        h  == (((ah * b) % HALF_WORD) + (c \div HALF_WORD)) % HALF_WORD
    IN  Compose32(h, c % HALF_WORD)

\* a * b does not fit an int (signed overflow, C99 6.5p5: undefined).
MulOverflows(a, b) == b # 0 /\ CDiv(MulWrap32(a, b), b) # a

---------------------------------------------------------------------------
(* Command line (main, beacon.c:16-64)                                     *)

IsSpace(c) == c \in {" ", "\t", "\n"}

DigitValue(c) ==
    CASE c = "0" -> 0 [] c = "1" -> 1 [] c = "2" -> 2 [] c = "3" -> 3
      [] c = "4" -> 4 [] c = "5" -> 5 [] c = "6" -> 6 [] c = "7" -> 7
      [] c = "8" -> 8 [] c = "9" -> 9 [] OTHER -> -1

CharAt(s, k) == SubSeq(s, k, k)

RECURSIVE AtoiDigits(_, _, _)
AtoiDigits(s, k, acc) ==
    IF k > Len(s) \/ DigitValue(CharAt(s, k)) < 0 THEN acc
    ELSE AtoiDigits(s, k + 1, acc * 10 + DigitValue(CharAt(s, k)))

RECURSIVE SkipSpace(_, _)
SkipSpace(s, k) ==
    IF k <= Len(s) /\ IsSpace(CharAt(s, k)) THEN SkipSpace(s, k + 1) ELSE k

\* atoi: optional white space, optional sign, then the leading digits; 0 when
\* there is none.
Atoi(s) ==
    LET k == SkipSpace(s, 1)
    IN  IF k <= Len(s) /\ CharAt(s, k) = "-" THEN 0 - AtoiDigits(s, k + 1, 0)
        ELSE IF k <= Len(s) /\ CharAt(s, k) = "+" THEN AtoiDigits(s, k + 1, 0)
        ELSE AtoiDigits(s, k, 0)

\* strncmp(s, p, strlen(p)) == 0.
HasPrefix(s, p) == Len(s) >= Len(p) /\ SubSeq(s, 1, Len(p)) = p

\* strncpy(dst, src, n) into a zeroed buffer: at most n characters.
Strncpy(s, n) == IF Len(s) <= n THEN s ELSE SubSeq(s, 1, n)

\* s written n times.
RECURSIVE Repeat(_, _)
Repeat(s, n) ==
    IF n = 0 THEN ""
    ELSE LET half == Repeat(s, n \div 2)
         IN  half \o half \o (IF n % 2 = 1 THEN s ELSE "")

\* --jitter stored as requested.
ClampJitter_None(j) == j

\* --jitter: beacon.c:47-48.
ClampJitter(j) == IF j > MAX_JITTER THEN MAX_JITTER ELSE j

\* main's defaults, beacon.c:18-22.
DefaultConfig ==
    [ server_url     |-> "",
      beacon_id      |-> "",
      sleep_interval |-> DEFAULT_SLEEP,
      jitter_percent |-> DEFAULT_JITTER,
      verify_ssl     |-> 0 ]

\* argv is the C vector: Argv(a, 0) is the program name.
Argv(a, k) == a[k + 1]
Argc(a) == Len(a)

\* The option loop, beacon.c:41-59: for (i = 2; i < argc; i += 2).
RECURSIVE ParseOptions(_, _, _)
ParseOptions(a, k, cfg) ==
    IF k >= Argc(a) \/ k + 1 >= Argc(a) THEN cfg
    ELSE IF Argv(a, k) = "--sleep"
         THEN ParseOptions(a, k + 2,
                  [cfg EXCEPT !.sleep_interval = Atoi(Argv(a, k + 1))])
    ELSE IF Argv(a, k) = "--jitter"
         THEN ParseOptions(a, k + 2,
                  [cfg EXCEPT !.jitter_percent = ClampJitter(Atoi(Argv(a, k + 1)))])
    ELSE IF Argv(a, k) = "--beacon-id"
         THEN ParseOptions(a, k + 2,
                  [cfg EXCEPT !.beacon_id = Strncpy(Argv(a, k + 1), BEACON_ID_LEN - 1)])
    ELSE IF Argv(a, k) = "--verify-ssl"
         THEN ParseOptions(a, k + 1, [cfg EXCEPT !.verify_ssl = 1])
    ELSE ParseOptions(a, k + 2, cfg)

\* generate_uuid's format, beacon.c:260: 36 characters.
GeneratedId == "6b8b4567-4873-dc51-8b4c-ff2a2eb141f2"

\* beacon.c:37-64.
ParseArgs(a) ==
    LET cfg == ParseOptions(a, 2,
                   [DefaultConfig EXCEPT
                        !.server_url = Strncpy(Argv(a, 1), MAX_URL_LEN - 1)])
    IN  IF Len(cfg.beacon_id) = 0 THEN [cfg EXCEPT !.beacon_id = GeneratedId]
        ELSE cfg

\* The command lines tried.
Urls == { "http://c2.example/checkin", "https://c2.example/checkin" }

OptionVectors ==
    { << >>,
      << "--sleep", "1" >>,
      << "--sleep", "3", "--jitter", "50" >>,
      << "--sleep", "0" >>,
      << "--sleep", "0", "--jitter", "0" >>,
      << "--sleep", "-5", "--jitter", "0" >>,
      << "--sleep", "-60", "--jitter", "50" >>,
      << "--jitter", "0" >>,
      << "--jitter", "-10" >>,
      << "--jitter", "75" >>,
      << "--jitter", "2147483647" >>,
      << "--verify-ssl", "--sleep", "2", "--jitter", "51" >>,
      << "--sleep", "42949673", "--jitter", "50" >> }

\* The command lines the dispatch loop is exercised with.
EngineCommandLines ==
    { << "beacon" >>,
      << "beacon", "http://c2.example/checkin" >>,
      << "beacon", "http://c2.example/checkin", "--sleep", "3", "--jitter", "50" >>,
      << "beacon", "https://c2.example/checkin", "--verify-ssl" >> }

\* The option vectors tried with the https URL.
SecureOptionVectors ==
    { << >>, << "--verify-ssl", "--sleep", "2", "--jitter", "51" >> }

\* Controller URLs at the limits of parse_url's buffers: a host name that
\* fills hostname[] exactly, one a byte longer, a longer one, a URL without
\* a scheme, a path that fills path[] exactly, and a URL longer than
\* server_url can hold.
BoundaryUrls ==
    { "http://" \o Repeat("a", HOSTNAME_SIZE - 1) \o "/checkin",
      "http://" \o Repeat("a", HOSTNAME_SIZE) \o "/checkin",
      "http://" \o Repeat("a", HOSTNAME_SIZE + 44) \o "/checkin",
      "c2.example:8080/checkin",
      Repeat("/", MAX_URL_LEN - 1),
      "http://h" \o Repeat("/", MAX_URL_LEN + 88) }

CommandLines ==
    { << "beacon" >> } \cup
    { << "beacon", u >> : u \in BoundaryUrls } \cup
    { << "beacon", u >> \o o :
        u \in { v \in Urls : ~HasPrefix(v, "https://") }, o \in OptionVectors } \cup
    { << "beacon", u >> \o o :
        u \in { v \in Urls : HasPrefix(v, "https://") }, o \in SecureOptionVectors }

---------------------------------------------------------------------------
(* sleep_with_jitter (beacon.c:271-281)                                    *)

\* The values rand() returns that the model tries; the C library's range is
\* 0 .. RAND_MAX, far beyond what can be enumerated.
MaxRand == 127
RandValues == 0 .. MaxRand

\* beacon.c:273, when the product fits an int.
JitterRange(base_seconds, jitter_percent) ==
    CDiv(MulWrap32(base_seconds, jitter_percent), 100)

\* beacon.c:276.
FloorOne(sleep_time) == IF sleep_time < 1 THEN 1 ELSE sleep_time

\* beacon.c:274-276 for one value r of rand().
JitteredSleep(base_seconds, jitter_range, r) ==
    FloorOne(base_seconds + (CRem(r, 2 * jitter_range + 1) - jitter_range))

\* The arguments sleep() can be called with. When base_seconds *
\* jitter_percent overflows (undefined behaviour) the build either wraps, and
\* jitter_range is computed from the wrapped product as here, or traps (see
\* SleepMayTrap).
SleepTimes(base_seconds, jitter_percent) ==
    IF jitter_percent > 0
    THEN { JitteredSleep(base_seconds,
                         JitterRange(base_seconds, jitter_percent), r) :
           r \in RandValues }
    ELSE { base_seconds }

\* A build with overflow trapping aborts at beacon.c:273.
SleepMayTrap(base_seconds, jitter_percent) ==
    jitter_percent > 0 /\ MulOverflows(base_seconds, jitter_percent)

---------------------------------------------------------------------------
(* Dispatcher (beacon.c:283-336)                                           *)

\* What the host does for one command: the subprocess run of a shell
\* command and the outcome of getcwd.
NoRun == [ popen_ok |-> TRUE, chunks |-> << >>, exit_status |-> 0,
           cwd_ok |-> TRUE, cwd |-> "" ]

\* What successive fgets(buffer, sizeof(buffer), pipe) calls return for a
\* subprocess that writes `lines` lines of `width` characters, the newline
\* included: a line longer than the buffer comes in pieces of
\* FGETS_BUFFER - 1 characters.
LineChunks(width, lines) ==
    LET whole == width \div (FGETS_BUFFER - 1)
        rest  == width % (FGETS_BUFFER - 1)
        line  == [ k \in 1 .. whole |-> Repeat("A", FGETS_BUFFER - 1) ] \o
                 (IF rest > 0 THEN << Repeat("A", rest - 1) \o "\n" >> ELSE << >>)
        per   == Len(line)
    IN  [ k \in 1 .. lines * per |-> line[((k - 1) % per) + 1] ]

ShellRuns ==
    { [NoRun EXCEPT !.popen_ok = FALSE],
      [NoRun EXCEPT !.chunks = << "uid=0(root) gid=0(root)\n" >>],
      [NoRun EXCEPT !.chunks = << "sh: 1: id: not found\n" >>,
                    !.exit_status = 127],
      [NoRun EXCEPT !.chunks = LineChunks(MAX_OUTPUT_SIZE + FGETS_BUFFER, 1)],
      [NoRun EXCEPT !.chunks = LineChunks(1000, 20)] }

CwdRuns ==
    { [NoRun EXCEPT !.cwd = "/opt/beacon"],
      [NoRun EXCEPT !.cwd_ok = FALSE] }

HostRuns(cmd) ==
    CASE cmd.command = "shell" -> ShellRuns
      [] cmd.command = "pwd"   -> CwdRuns
      [] OTHER                 -> { NoRun }

\* The fgets loop of execute_shell_command, beacon.c:324-332: chunks are what
\* successive fgets calls return.
RECURSIVE ShellCapture(_, _, _, _)
ShellCapture(chunks, k, output, output_size) ==
    IF k > Len(chunks) \/ ~(Len(output) < output_size - 1) THEN output
    ELSE IF Len(output) + Len(chunks[k]) < output_size - 1
         THEN ShellCapture(chunks, k + 1, output \o chunks[k], output_size)
         ELSE output

\* execute_shell_command, beacon.c:314-336: output and return value.
ExecuteShellCommand(run, output_size) ==
    IF ~run.popen_ok
    THEN [ output  |-> Strncpy("Error: Failed to execute command", output_size - 1),
           success |-> 0 ]
    ELSE [ output  |-> ShellCapture(run.chunks, 1, "", output_size),
           success |-> IF run.exit_status = 0 THEN 1 ELSE 0 ]

\* A reading of get_current_timestamp, beacon.c:265-269.
ClockReading == "2026-11-02T03:00:00Z"

\* execute_command, beacon.c:283-312: the result written to *result.
ExecuteCommand(cmd, run) ==
    LET head == [ command_id |-> Strncpy(cmd.id, 63), timestamp |-> ClockReading ]
    IN  IF cmd.command = "shell"
        THEN LET sh == ExecuteShellCommand(run, MAX_OUTPUT_SIZE)
             IN  head @@ [ success |-> sh.success, output |-> sh.output ]
        ELSE IF cmd.command = "pwd"
        THEN IF run.cwd_ok
             THEN head @@ [ success |-> 1, output |-> run.cwd ]
             ELSE head @@ [ success |-> 0,
                            output |-> "Error getting current directory" ]
        ELSE IF cmd.command = "exit"
        THEN head @@ [ success |-> 1, output |-> "Beacon shutting down" ]
        ELSE head @@ [ success |-> 0,
                       output |-> Strncpy("Unknown command: " \o cmd.command,
                                          MAX_OUTPUT_SIZE - 1) ]

\* Every verb that is not handled stops the engine.
RunningAfter_UnknownStops(cmd, running) ==
    IF cmd.command \in { "shell", "pwd" } THEN running ELSE 0

\* Every verb but exit sets the flag.
RunningAfter_Restart(cmd, running) == IF cmd.command = "exit" THEN 0 ELSE 1

\* execute_command's effect on g_running, beacon.c:302-305.
RunningAfter(cmd, running) == IF cmd.command = "exit" THEN 0 ELSE running

\* The guard off by one.
BufferHasRoom_OffByOne(count) == count <= MAX_RESULTS

\* The guard of the dispatch loop, beacon.c:164.
BufferHasRoom(count) == count < MAX_RESULTS

---------------------------------------------------------------------------
(* What the controller can send                                            *)

ShortVerbs == { "shell", "pwd", "exit", "frobnicate" }
LongVerb == "synchronise-configuration"

Command(id, verb) ==
    [ id |-> id, command |-> verb, args |-> IF verb = "shell" THEN "id" ELSE "" ]

IdUp(k, n) == "c" \o ToString(k)
IdDown(k, n) == "c" \o ToString(n + 1 - k)

\* Every list of at most MaxCmds commands, identifiers ascending or descending.
ShortLists ==
    UNION { { [ k \in 1 .. n |-> Command(IdUp(k, n), f[k]) ] :
              f \in [1 .. n -> ShortVerbs] } \cup
            { [ k \in 1 .. n |-> Command(IdDown(k, n), f[k]) ] :
              f \in [1 .. n -> ShortVerbs] } :
            n \in 0 .. MaxCmds }

\* Lists around the capacity of the result buffer: one verb throughout but
\* for one position.
LongLists ==
    { [ k \in 1 .. n |-> Command(IdUp(k, n), IF k = p THEN v ELSE LongVerb) ] :
      n \in (MAX_RESULTS - 1) .. (MAX_RESULTS + MaxOver),
      p \in { 1, MAX_RESULTS, MAX_RESULTS + 1 },
      v \in { "exit", "pwd" } }

CommandLists == ShortLists \cup LongLists

\* A response as read from the socket (communication.c:321-341): the status
\* line's protocol version and code, the kind of body, what its commands
\* field holds, and whether reading ended on a recv error.
NoData == [ version |-> "", status |-> 0, doc |-> "none", field |-> "absent",
            commands |-> << >>, recv_failed |-> FALSE ]

Ok200 == [NoData EXCEPT !.version = "HTTP/1.1", !.status = 200, !.doc = "object"]

ResponseData ==
    { [Ok200 EXCEPT !.field = "array", !.commands = l] : l \in CommandLists } \cup
    { Ok200,
      [Ok200 EXCEPT !.field = "malformed"],
      [Ok200 EXCEPT !.doc = "garbage"],
      [Ok200 EXCEPT !.doc = "garbage", !.recv_failed = TRUE],
      [Ok200 EXCEPT !.status = 500],
      [Ok200 EXCEPT !.status = 500, !.field = "array",
                    !.commands = << Command("c1", "exit") >>],
      [Ok200 EXCEPT !.version = "HTTP/1.0"],
      NoData,
      [NoData EXCEPT !.recv_failed = TRUE] }

\* http_request's failures before a response is read, communication.c:272-319.
TransportFailures == { "socket", "resolve", "connect", "send" }

---------------------------------------------------------------------------
(* parse_url (communication.c:358-400)                                     *)

\* strchr: the position of the first c in s, 0 when there is none.
StrChr(s, c, k) ==
    LET found == { j \in k .. Len(s) : CharAt(s, j) = c }
    IN  IF found = { } THEN 0
        ELSE CHOOSE j \in found : \A h \in found : j <= h

ParseUrl(url) ==
    LET skip  == IF HasPrefix(url, "http://") THEN 7
                 ELSE IF HasPrefix(url, "https://") THEN 8
                 ELSE 0
        start == SubSeq(url, skip + 1, Len(url))
        path_start == StrChr(start, "/", 1)
        port_start == StrChr(start, ":", 1)
        with_port  == port_start # 0 /\ (path_start = 0 \/ port_start < path_start)
        hostname_len == IF with_port THEN port_start - 1
                        ELSE IF path_start # 0 THEN path_start - 1
                        ELSE Len(start)
    IN  [ hostname |-> SubSeq(start, 1, hostname_len),
          port     |-> IF with_port
                       THEN Atoi(SubSeq(start, port_start + 1, Len(start)))
                       ELSE IF skip = 8 THEN 443 ELSE 80,
          path     |-> IF path_start # 0
                       THEN SubSeq(start, path_start, Len(start)) ELSE "/",
          use_ssl  |-> IF skip = 8 THEN 1 ELSE 0 ]

\* The bytes parse_url writes into the caller's hostname[] and path[]:
\* strncpy of hostname_len bytes and the terminator after them
\* (communication.c:389-390), strcpy of the path with its terminator
\* (communication.c:393-397).
ParseUrlWrites(url) ==
    [ hostname |-> Len(ParseUrl(url).hostname) + 1,
      path     |-> Len(ParseUrl(url).path) + 1 ]

\* parse_url writes past hostname[256] or path[512] of http_request
\* (communication.c:267-269): undefined behaviour.
ParseUrlOverruns(url) ==
    \/ ParseUrlWrites(url).hostname > HOSTNAME_SIZE
    \/ ParseUrlWrites(url).path > PATH_SIZE

---------------------------------------------------------------------------
(* Building a check-in request (communication.c:13-95, 113-167, 301-313)   *)

USER_AGENT == "Mozilla/5.0 (Windows NT 10.0; Win64; x64) AppleWebKit/537.36"
\* The timestamp sent in place of the clock, communication.c:62.
PlaceholderTimestamp == "2024-01-01T00:00:00Z"

\* The formats with their conversions taken out.
HeadersFormat ==
    "User-Agent: \r\nContent-Type: application/json\r\nX-Beacon-ID: \r\n"
ResultsHeadFormat == "{\"beacon_id\":\"\",\"timestamp\":\"\",\"command_results\":["
ResultFormat ==
    "{\"command_id\":\"\",\"success\":,\"output\":\"\",\"timestamp\":\"\"}"
RequestHeadFormat == " HTTP/1.1\r\nHost: \r\nConnection: close\r\n\r\n"

\* The headers built at communication.c:22-26.
HeadersLen(beacon_id) == Len(HeadersFormat) + Len(USER_AGENT) + Len(beacon_id)

\* What the snprintf of communication.c:56-62 returns.
ResultsHeadLen(beacon_id) ==
    Len(ResultsHeadFormat) + Len(beacon_id) + Len(PlaceholderTimestamp)

\* What the snprintf of communication.c:65-76 returns for results[k],
\* k counted from 1 here.
ResultLen(r, k) ==
    (IF k > 1 THEN 1 ELSE 0) + Len(ResultFormat) + Len(r.command_id)
    + (IF r.success # 0 THEN 4 ELSE 5) + Len(r.output) + Len(r.timestamp)

\* The loop of communication.c:64-77: the offsets after each result it
\* formats. It stops once offset reaches sizeof(json_data) - 256.
RECURSIVE ResultOffsets(_, _, _, _, _)
ResultOffsets(results, result_count, k, offset, ends) ==
    IF k <= result_count /\ offset < MAX_BUFFER_SIZE - 256
    THEN ResultOffsets(results, result_count, k + 1,
                       offset + ResultLen(results[k], k),
                       Append(ends, offset + ResultLen(results[k], k)))
    ELSE ends

\* The length of the request head that http_request puts before the data,
\* communication.c:303-309.
RequestHeadLen(method, url, beacon_id) ==
    Len(method) + 1 + Len(ParseUrl(url).path) + Len(RequestHeadFormat)
    + Len(ParseUrl(url).hostname) + HeadersLen(beacon_id)

\* The number of characters of the data that reach request[], whose snprintf
\* (communication.c:312) keeps at most sizeof(request) - request_len - 1,
\* after json_data[] itself kept at most sizeof(json_data) - 1.
DataRoom(method, url, beacon_id) ==
    LET room == MAX_BUFFER_SIZE - RequestHeadLen(method, url, beacon_id) - 1
    IN  IF room < MAX_BUFFER_SIZE - 1 THEN room ELSE MAX_BUFFER_SIZE - 1

\* The results whose encoding is whole in the bytes sent.
ResultsSent(cfg, results, result_count) ==
    LET ends == ResultOffsets(results, result_count, 1,
                              ResultsHeadLen(cfg.beacon_id), << >>)
        room == DataRoom("POST", cfg.server_url, cfg.beacon_id)
        whole == { k \in 1 .. Len(ends) : ends[k] <= room }
    IN  [ k \in 1 .. Cardinality(whole) |-> results[k] ]

\* offset when the closing snprintf of communication.c:79 is reached.
ResultsFinalOffset(cfg, results, result_count) ==
    LET ends == ResultOffsets(results, result_count, 1,
                              ResultsHeadLen(cfg.beacon_id), << >>)
    IN  IF ends = << >> THEN ResultsHeadLen(cfg.beacon_id) ELSE ends[Len(ends)]

\* strlen(json_data) after communication.c:79: every snprintf stops at the
\* last byte of the buffer.
ResultsJsonLen(cfg, results, result_count) ==
    LET offset == ResultsFinalOffset(cfg, results, result_count)
    IN  IF offset + 2 < MAX_BUFFER_SIZE - 1 THEN offset + 2 ELSE MAX_BUFFER_SIZE - 1

\* request_len after communication.c:311-313 for a result-bearing check-in:
\* the sum of what the two snprintf calls return, which is what send() is
\* asked to write.
ResultsRequestLen(cfg, results, result_count) ==
    RequestHeadLen("POST", cfg.server_url, cfg.beacon_id)
    + ResultsJsonLen(cfg, results, result_count)

\* The closing snprintf of communication.c:79 is handed json_data + offset
\* with offset beyond the buffer and sizeof(json_data) - offset wrapped to a
\* huge size_t: it writes outside json_data (undefined behaviour).
ResultsEncodingOverruns(cfg, results, result_count) ==
    /\ ~HasPrefix(cfg.server_url, "https://")
    /\ result_count > 0
    /\ ResultsFinalOffset(cfg, results, result_count) > MAX_BUFFER_SIZE

\* The first n characters of s.
Take(s, n) == IF n <= 0 THEN "" ELSE IF Len(s) <= n THEN s ELSE SubSeq(s, 1, n)

\* The text the snprintf of communication.c:56-62 formats.
EncodeResultsHead(beacon_id) ==
    "{\"beacon_id\":\"" \o beacon_id \o "\",\"timestamp\":\""
    \o PlaceholderTimestamp \o "\",\"command_results\":["

\* The text the snprintf of communication.c:65-76 formats for results[k],
\* k counted from 1 here: every string goes in with %s, as it is.
EncodeResult(r, k) ==
    (IF k > 1 THEN "," ELSE "")
    \o "{\"command_id\":\"" \o r.command_id
    \o "\",\"success\":" \o (IF r.success # 0 THEN "true" ELSE "false")
    \o ",\"output\":\"" \o r.output
    \o "\",\"timestamp\":\"" \o r.timestamp \o "\"}"

\* json_data[] during the loop of communication.c:64-77: each snprintf keeps
\* what fits before the terminator and returns the length it was asked to
\* write, which is what offset advances by.
RECURSIVE ResultsJsonLoop(_, _, _, _, _)
ResultsJsonLoop(results, result_count, k, text, offset) ==
    IF k <= result_count /\ offset < MAX_BUFFER_SIZE - 256
    THEN ResultsJsonLoop(results, result_count, k + 1,
             text \o Take(EncodeResult(results[k], k), MAX_BUFFER_SIZE - offset - 1),
             offset + Len(EncodeResult(results[k], k)))
    ELSE [ text |-> text, offset |-> offset ]

\* json_data[] and offset when the closing snprintf of communication.c:79 is
\* reached.
ResultsJsonBody(cfg, results, result_count) ==
    ResultsJsonLoop(results, result_count, 1,
                    EncodeResultsHead(cfg.beacon_id),
                    Len(EncodeResultsHead(cfg.beacon_id)))

\* json_data[] as a string after communication.c:79, when that snprintf
\* writes inside the buffer (offset <= sizeof(json_data)).
ResultsJson(cfg, results, result_count) ==
    LET body == ResultsJsonBody(cfg, results, result_count)
    IN  IF body.offset < MAX_BUFFER_SIZE
        THEN body.text \o Take("]}", MAX_BUFFER_SIZE - body.offset - 1)
        ELSE body.text

\* The data of a result-bearing check-in as it leaves in request[],
\* communication.c:311-316.
ResultsDataSent(cfg, results, result_count) ==
    Take(ResultsJson(cfg, results, result_count),
         DataRoom("POST", cfg.server_url, cfg.beacon_id))

\* What http_request sends on, communication.c:276 and 316: a stream socket
\* written with send(); use_ssl, which parse_url sets, is not read.
HttpRequestChannel == "plaintext"

\* https_request, communication.c:347-354.
HttpsRequestChannel(verify_ssl) == HttpRequestChannel

NoRequest == [ method |-> "", body |-> "none", results |-> << >>,
               channel |-> "none" ]

\* The document http_checkin builds in json_data[], communication.c:29-89.
HttpCheckinJson(sysinfo, result_count) ==
    IF sysinfo THEN "system_info"
    ELSE IF result_count > 0 THEN "command_results"
    ELSE "id_timestamp"

\* The document https_checkin builds in json_data[], communication.c:129-161.
HttpsCheckinJson(sysinfo) == IF sysinfo THEN "system_info" ELSE "id_timestamp"

\* http_checkin, communication.c:28-95: the request handed to http_request.
\* sysinfo is TRUE for the first check-in (a non-NULL pointer). data is
\* json_data for a POST and NULL for a GET (communication.c:92-93), and
\* http_request appends a body only when data is not NULL
\* (communication.c:311-313).
HttpCheckinRequest(cfg, sysinfo, results, result_count) ==
    IF sysinfo \/ result_count > 0
    THEN [ method |-> "POST", body |-> HttpCheckinJson(sysinfo, result_count),
           results |-> IF sysinfo THEN << >>
                       ELSE ResultsSent(cfg, results, result_count) ]
    ELSE [ method |-> "GET", body |-> "none", results |-> << >> ]

\* https_checkin, communication.c:128-167.
HttpsCheckinRequest(cfg, sysinfo, results, result_count) ==
    IF sysinfo
    THEN [ method |-> "POST", body |-> HttpsCheckinJson(sysinfo), results |-> << >> ]
    ELSE [ method |-> "GET", body |-> "none", results |-> << >> ]

\* The choice of beacon.c:118-122 and 152-156.
CheckinRequest(cfg, sysinfo, results, result_count) ==
    IF HasPrefix(cfg.server_url, "https://")
    THEN HttpsCheckinRequest(cfg, sysinfo, results, result_count)
         @@ [ channel |-> HttpsRequestChannel(cfg.verify_ssl) ]
    ELSE HttpCheckinRequest(cfg, sysinfo, results, result_count)
         @@ [ channel |-> HttpRequestChannel ]

---------------------------------------------------------------------------
(* Reading a check-in response (communication.c:95-110, 333-341, 402-416)  *)

\* http_request's parse of the status line, communication.c:337-340;
\* status_code is 0 from the initializer otherwise.
StatusCode(data) == IF data.version = "HTTP/1.1" THEN data.status ELSE 0

\* parse_commands_json, communication.c:402-416: the command array and the
\* count it returns.
ParseCommandsJson(data) == << >>

\* The array a body carries, as a decoder of the wire format yields it.
CarriedCommands(data) ==
    IF data.doc = "object" /\ data.field = "array" THEN data.commands ELSE << >>

\* The commands a successful check-in hands to the loop.
Decode(decoded, data) ==
    IF decoded THEN CarriedCommands(data) ELSE ParseCommandsJson(data)

\* http_checkin's and https_checkin's return value once http_request has
\* returned 0 (response.data is then never NULL), communication.c:97-110.
CheckinStatus(data) == IF StatusCode(data) = 200 THEN 0 ELSE -1

---------------------------------------------------------------------------
(* The program                                                             *)

NoResponse == [ transport |-> "none", data |-> NoData ]

\* The statics of beacon.c:10-14, zero-initialised, before main runs.
Init ==
    /\ pc = "main"
    /\ g_config = [ server_url |-> "", beacon_id |-> "", sleep_interval |-> 0,
                    jitter_percent |-> 0, verify_ssl |-> 0 ]
    /\ g_running = 0
    /\ g_results = << >>
    /\ g_result_count = 0
    /\ commands = << >>
    /\ command_count = 0
    /\ i = 0
    /\ checkin_result = 0
    /\ request = NoRequest
    /\ response = NoResponse
    /\ slept = << >>
    /\ exit_code = -1

\* main up to the call of beacon_start, beacon.c:16-70. On this build
\* beacon_initialize cannot fail (collect_system_info returns 0).
MainWith(lines) ==
    /\ pc = "main"
    /\ \E a \in lines :
         IF Argc(a) < 2
         THEN /\ g_config' = DefaultConfig
              /\ pc' = "stopped"
              /\ exit_code' = 1
         ELSE /\ g_config' = ParseArgs(a)
              /\ pc' = "start"
              /\ exit_code' = exit_code
    /\ UNCHANGED << g_running, g_results, g_result_count, commands,
                    command_count, i, checkin_result, request, response, slept >>

Main == MainWith(CommandLines)

EngineMain == MainWith(EngineCommandLines)

\* beacon_start retrying its check-in instead of failing.
AfterFirstCheckin_Retry(result) == IF result = 0 THEN "enter" ELSE "start"

\* Where beacon_start's check-in leads, beacon.c:124-137 and 73-80: into
\* beacon_main_loop, or out of main with status 1.
AfterFirstCheckin(result) == IF result = 0 THEN "enter" ELSE "stopped"

\* How the check-in of beacon.c:118-122 can go up to the request being sent:
\* the request leaves, http_request fails before it reads, or, when
\* parse_url wrote past http_request's hostname[], the process is killed by
\* the memory fault (SIGSEGV, status 128 + 11) that the stray write can
\* bring about.
StartSendOutcomes(cfg) ==
    { "ok" } \cup TransportFailures \cup
    ( IF ParseUrlOverruns(cfg.server_url) THEN { "fault" } ELSE { } )

\* beacon_start up to the request being sent, beacon.c:110-122, or to
\* http_request failing before it reads.
StartSend ==
    /\ pc = "start"
    /\ \E t \in StartSendOutcomes(g_config) :
         IF t = "ok"
         THEN /\ request' = CheckinRequest(g_config, TRUE, << >>, 0)
              /\ pc' = "start_recv"
              /\ UNCHANGED << checkin_result, response, exit_code >>
         ELSE IF t = "fault"
         THEN /\ request' = NoRequest
              /\ pc' = "stopped"
              /\ exit_code' = 128 + 11
              /\ UNCHANGED << checkin_result, response >>
         ELSE /\ request' = NoRequest
              /\ response' = [ transport |-> t, data |-> NoData ]
              /\ checkin_result' = -1
              /\ pc' = AfterFirstCheckin(-1)
              /\ exit_code' = IF AfterFirstCheckin(-1) = "stopped" THEN 1 ELSE exit_code
    /\ UNCHANGED << g_config, g_running, g_results, g_result_count, commands,
                    command_count, i, slept >>

\* beacon_start obeying a termination verb carried by the first response.
StartRecv_ObeyExit ==
    /\ pc = "start_recv"
    /\ \E d \in ResponseData :
         /\ response' = [ transport |-> "ok", data |-> d ]
         /\ checkin_result' = CheckinStatus(d)
         /\ pc' = AfterFirstCheckin(CheckinStatus(d))
         /\ g_running' = IF CheckinStatus(d) = 0
                         THEN IF \E k \in 1 .. Len(CarriedCommands(d)) :
                                    CarriedCommands(d)[k].command = "exit"
                              THEN 0 ELSE 1
                         ELSE g_running
         /\ exit_code' = IF AfterFirstCheckin(CheckinStatus(d)) = "stopped"
                         THEN 1 ELSE exit_code
    /\ request' = NoRequest
    /\ UNCHANGED << g_config, g_results, g_result_count, commands,
                    command_count, i, slept >>

\* The response to the first check-in, beacon.c:124-137, and main's
\* reaction, beacon.c:73-80. The commands received are freed unread.
StartRecv ==
    /\ pc = "start_recv"
    /\ \E d \in ResponseData :
         /\ response' = [ transport |-> "ok", data |-> d ]
         /\ checkin_result' = CheckinStatus(d)
         /\ pc' = AfterFirstCheckin(CheckinStatus(d))
         /\ g_running' = IF CheckinStatus(d) = 0 THEN 1 ELSE g_running
         /\ exit_code' = IF AfterFirstCheckin(CheckinStatus(d)) = "stopped"
                         THEN 1 ELSE exit_code
    /\ request' = NoRequest
    /\ UNCHANGED << g_config, g_results, g_result_count, commands,
                    command_count, i, slept >>

\* The loop checking in once more when running has become false.
LoopTest_FinalCheckin ==
    /\ pc \in { "enter", "loop" }
    /\ IF g_running # 0
       THEN /\ pc' = "sleep"
            /\ response' = NoResponse
            /\ checkin_result' = 0
       ELSE /\ pc' = "send"
            /\ UNCHANGED << response, checkin_result >>
    /\ UNCHANGED << g_config, g_running, g_results, g_result_count, commands,
                    command_count, i, request, slept, exit_code >>

\* while (g_running), beacon.c:143, and the return of beacon.c:179-180, 85.
LoopTest ==
    /\ pc \in { "enter", "loop" }
    /\ IF g_running # 0
       THEN /\ pc' = "sleep"
            /\ response' = NoResponse
            /\ checkin_result' = 0
            /\ exit_code' = exit_code
       ELSE /\ pc' = "stopped"
            /\ exit_code' = 0
            /\ UNCHANGED << response, checkin_result >>
    /\ UNCHANGED << g_config, g_running, g_results, g_result_count, commands,
                    command_count, i, request, slept >>

\* What the call of sleep_with_jitter can do, beacon.c:145.
SleepOutcomes(base_seconds, jitter_percent) ==
    { [ trap |-> FALSE, seconds |-> t ] :
      t \in SleepTimes(base_seconds, jitter_percent) } \cup
    ( IF SleepMayTrap(base_seconds, jitter_percent)
      THEN { [ trap |-> TRUE, seconds |-> 0 ] } ELSE { } )

Sleep ==
    /\ pc = "sleep"
    /\ \E o \in SleepOutcomes(g_config.sleep_interval, g_config.jitter_percent) :
         IF o.trap
         THEN /\ pc' = "stopped"
              /\ exit_code' = 134
              /\ slept' = slept
         ELSE /\ pc' = "send"
              /\ exit_code' = exit_code
              /\ slept' = Append(slept, o.seconds)
    /\ UNCHANGED << g_config, g_running, g_results, g_result_count, commands,
                    command_count, i, checkin_result, request, response >>

\* The loop checking in again at once after a failure.
AfterLoopCheckin_Retry(result) == IF result = 0 THEN "for" ELSE "send"

\* Where a loop check-in leads, beacon.c:158 and 174-177.
AfterLoopCheckin(result) == IF result = 0 THEN "for" ELSE "loop"

\* How the check-in of beacon.c:151-156 can go up to the request being sent:
\* the request leaves, http_request fails before it reads, or, when the
\* encoding of the results wrote outside json_data or parse_url wrote past
\* http_request's hostname[], the process is killed by the memory fault
\* (SIGSEGV, status 128 + 11) that the stray write can bring about.
SendOutcomes(cfg, results, result_count) ==
    { "ok" } \cup TransportFailures \cup
    ( IF \/ ResultsEncodingOverruns(cfg, results, result_count)
         \/ ParseUrlOverruns(cfg.server_url)
      THEN { "fault" } ELSE { } )

\* beacon.c:147-156 up to the request being sent, or to http_request
\* failing before it reads.
Send ==
    /\ pc = "send"
    /\ commands' = << >>
    /\ command_count' = 0
    /\ slept' = << >>
    /\ \E t \in SendOutcomes(g_config, g_results, g_result_count) :
         IF t = "ok"
         THEN /\ request' = CheckinRequest(g_config, FALSE, g_results, g_result_count)
              /\ pc' = "recv"
              /\ UNCHANGED << checkin_result, response, exit_code >>
         ELSE IF t = "fault"
         THEN /\ request' = NoRequest
              /\ pc' = "stopped"
              /\ exit_code' = 128 + 11
              /\ UNCHANGED << checkin_result, response >>
         ELSE /\ request' = NoRequest
              /\ response' = [ transport |-> t, data |-> NoData ]
              /\ checkin_result' = -1
              /\ pc' = AfterLoopCheckin(-1)
              /\ exit_code' = exit_code
    /\ UNCHANGED << g_config, g_running, g_results, g_result_count, i >>

\* The response to a loop check-in and the clearing of the sent results,
\* communication.c:97-110 and beacon.c:158-160. decoded is TRUE when *commands
\* is filled with the commands the body carries, FALSE when it is filled by
\* parse_commands_json as the source has it.
RecvWith(decoded) ==
    /\ pc = "recv"
    /\ \E d \in ResponseData :
         /\ response' = [ transport |-> "ok", data |-> d ]
         /\ checkin_result' = CheckinStatus(d)
         /\ pc' = AfterLoopCheckin(CheckinStatus(d))
         /\ IF CheckinStatus(d) = 0
            THEN /\ commands' = Decode(decoded, d)
                 /\ command_count' = Len(Decode(decoded, d))
                 /\ g_result_count' = 0
                 /\ g_results' = << >>
            ELSE UNCHANGED << commands, command_count, g_result_count, g_results >>
    /\ request' = NoRequest
    /\ i' = 0
    /\ UNCHANGED << g_config, g_running, slept, exit_code >>

Recv == RecvWith(FALSE)

EngineRecv == RecvWith(TRUE)

\* The dispatch loop leaving the command list once running is false.
ForTest_StopOnExit ==
    /\ pc = "for"
    /\ IF i < command_count /\ g_running # 0
       THEN IF BufferHasRoom(g_result_count)
            THEN /\ pc' = "exec"
                 /\ UNCHANGED << i, commands >>
            ELSE /\ pc' = "for"
                 /\ i' = i + 1
                 /\ UNCHANGED commands
       ELSE /\ pc' = "loop"
            /\ commands' = << >>
            /\ i' = 0
    /\ UNCHANGED << g_config, g_running, g_results, g_result_count,
                    command_count, checkin_result, request, response, slept,
                    exit_code >>

\* The head of the dispatch loop, beacon.c:163-164, and its end,
\* beacon.c:170-173.
ForTest ==
    /\ pc = "for"
    /\ IF i < command_count
       THEN IF BufferHasRoom(g_result_count)
            THEN /\ pc' = "exec"
                 /\ UNCHANGED << i, commands >>
            ELSE /\ pc' = "for"
                 /\ i' = i + 1
                 /\ UNCHANGED commands
       ELSE /\ pc' = "loop"
            /\ commands' = << >>
            /\ i' = 0
    /\ UNCHANGED << g_config, g_running, g_results, g_result_count,
                    command_count, checkin_result, request, response, slept,
                    exit_code >>

\* execute_command(&commands[i], &g_results[g_result_count]), beacon.c:165.
Exec ==
    /\ pc = "exec"
    /\ \E run \in HostRuns(commands[i + 1]) :
         g_results' = Append(SubSeq(g_results, 1, g_result_count),
                             ExecuteCommand(commands[i + 1], run))
    /\ g_running' = RunningAfter(commands[i + 1], g_running)
    /\ pc' = "inc"
    /\ UNCHANGED << g_config, g_result_count, commands, command_count, i,
                    checkin_result, request, response, slept, exit_code >>

\* The loop going on without counting the result written.
Inc_NoCount ==
    /\ pc = "inc"
    /\ i' = i + 1
    /\ pc' = "for"
    /\ UNCHANGED << g_config, g_running, g_results, g_result_count, commands,
                    command_count, checkin_result, request, response, slept,
                    exit_code >>

\* g_result_count++ and the loop's i++, beacon.c:166 and 163.
Inc ==
    /\ pc = "inc"
    /\ g_result_count' = g_result_count + 1
    /\ i' = i + 1
    /\ pc' = "for"
    /\ UNCHANGED << g_config, g_running, g_results, commands, command_count,
                    checkin_result, request, response, slept, exit_code >>

\* The program as built: the stub decoder hands back no command, so the
\* body of the dispatch loop (Exec, Inc) is never entered.
Next ==
    \/ Main
    \/ StartSend
    \/ StartRecv
    \/ LoopTest
    \/ Sleep
    \/ Send
    \/ Recv
    \/ ForTest

Spec == Init /\ [][Next]_vars

\* beacon.c driven by check-ins that hand back the commands carried.
NextEngine ==
    \/ EngineMain
    \/ StartSend
    \/ StartRecv
    \/ LoopTest
    \/ Sleep
    \/ Send
    \/ EngineRecv
    \/ ForTest
    \/ Exec
    \/ Inc

SpecEngine == Init /\ [][NextEngine]_vars

---------------------------------------------------------------------------
(* Claims                                                                  *)

\* C1: in every reachable state the result buffer holds between 0 and 64
\* results, whatever the length of the command lists dispatched: no slot
\* past 63 is written, the write position is below 64 whenever a result is
\* about to be written, and the process is still running while it
\* dispatches (a list longer than 64 raises no error).
C1_BufferWithinCapacity ==
    /\ g_result_count \in 0 .. MAX_RESULTS
    /\ Len(g_results) <= MAX_RESULTS
    /\ pc = "exec" => g_result_count < MAX_RESULTS
    /\ pc \in { "for", "exec", "inc" } => exit_code = -1

\* A list longer than the buffer has been dispatched to its end.
C1_Witness ==
    /\ pc = "for"
    /\ command_count > MAX_RESULTS
    /\ i = command_count
    /\ g_result_count = MAX_RESULTS

\* The response of a check-in the spec counts as successful: read to its
\* end, status 200, a body that parses as a document.
GoodResponse(r) ==
    /\ r.transport = "ok"
    /\ ~r.data.recv_failed
    /\ r.data.status = 200
    /\ r.data.doc = "object"

\* C2: in the main loop the result buffer is emptied (the clearing branch
\* of beacon.c:158-160 is taken) if and only if the check-in just made
\* returned status 200 with a parseable body; after a check-in that ended
\* in a transport or protocol error the buffer's length and contents are
\* what they were.
C2_ClearedIffGoodResponse ==
    [][ pc = "recv" =>
          /\ (pc' = "for") <=> GoodResponse(response')
          /\ ~GoodResponse(response') =>
                 UNCHANGED << g_results, g_result_count >> ]_vars

\* C3: every loop check-in made while the result buffer is not empty sends
\* a request that contains the whole buffer.
C3_RequestCarriesBuffer ==
    (pc = "recv" /\ g_result_count > 0) =>
        /\ request.body = "command_results"
        /\ request.results = g_results

\* A step in which a loop check-in fails: http_request fails before reading,
\* or the response read is not accepted.
LoopCheckinFails ==
    \/ pc = "send" /\ response'.transport \in TransportFailures
    \/ pc = "recv" /\ checkin_result' # 0

\* C4: a failed loop check-in dispatches nothing, leaves the result buffer,
\* the running flag and the configuration unchanged, sends no second request
\* and goes back to the loop's head, from where the engine sleeps; each
\* check-in attempt is preceded by exactly one sleep, drawn from the
\* durations the unchanged base interval and jitter percent allow.
C4_FailedCheckinSkipsCycle ==
    /\ [][ LoopCheckinFails =>
             /\ pc' = "loop"
             /\ request' = NoRequest
             /\ UNCHANGED << g_results, g_result_count, g_running, g_config >> ]_vars
    /\ [][ (pc = "loop" /\ checkin_result # 0) =>
             (pc' = "sleep" /\ slept' = << >>) ]_vars
    /\ [][ pc # "main" => g_config' = g_config ]_vars
    /\ [][ pc' = "send" => pc = "sleep" ]_vars
    /\ [](pc = "send" =>
             /\ Len(slept) = 1
             /\ slept[1] \in SleepTimes(g_config.sleep_interval,
                                        g_config.jitter_percent))
    /\ [](pc \notin { "recv", "start_recv" } => request = NoRequest)

\* The controller answered a loop check-in with status 500 while results
\* were waiting, and the engine is back at the loop's head with them.
C4_Witness ==
    /\ pc = "loop"
    /\ checkin_result = -1
    /\ response.data.status = 500
    /\ g_result_count > 0
    /\ g_running = 1

\* A step in which the first check-in fails.
FirstCheckinFails ==
    \/ pc = "start" /\ response'.transport \in TransportFailures
    \/ pc = "start_recv" /\ checkin_result' # 0

\* C5: when the first check-in fails the process stops with status 1 at
\* once: it does not retry, running is never set, and there is no sleep,
\* loop check-in or dispatch.
C5_FirstCheckinFailureIsFatal ==
    /\ [][ FirstCheckinFails => (pc' = "stopped" /\ exit_code' = 1) ]_vars
    /\ [][ pc = "stopped" => UNCHANGED vars ]_vars
    /\ [](exit_code = 1 =>
             /\ pc = "stopped"
             /\ g_running = 0
             /\ slept = << >>
             /\ g_results = << >>
             /\ g_result_count = 0
             /\ request = NoRequest)

\* The first check-in was refused by the controller's host and the process
\* has stopped with status 1.
C5_Witness ==
    /\ pc = "stopped"
    /\ exit_code = 1
    /\ response.transport = "connect"
    /\ checkin_result = -1

\* The commands a response carries, and whether the termination verb is
\* among them.
Carried == CarriedCommands(response.data)

CarriesExit == \E k \in 1 .. Len(Carried) : Carried[k].command = "exit"

\* The response is a status-200 answer of an HTTP/1.1 controller.
Answered200 ==
    /\ response.transport = "ok"
    /\ response.data.version = "HTTP/1.1"
    /\ response.data.status = 200

\* C6: the process exits with status 0 only when the termination verb was
\* received, with status 1 when it stops without ever having run, and once the cycle of a loop check-in answered with status 200
\* and a commands list containing the termination verb is over, running is
\* false, so that the loop exits and the process stops with status 0.
C6_ExitVerbStopsEngine ==
    /\ exit_code = 0 => (Answered200 /\ CarriesExit)
    /\ (pc = "stopped" /\ g_running = 0 /\ ~(Answered200 /\ CarriesExit)) =>
          exit_code = 1
    /\ (pc = "loop" /\ Answered200 /\ CarriesExit) => g_running = 0

\* C7: after a successful loop check-in whose body carries k <= 64 command
\* records the decoder has yielded exactly those k commands in order, and
\* once they are dispatched the result buffer holds exactly k results, the
\* i-th with the identifier of the i-th command.
C7_DecodedAndDispatchedInOrder ==
    /\ pc \in { "for", "exec", "inc" } =>
          (commands = Carried /\ command_count = Len(Carried))
    /\ (pc = "loop" /\ checkin_result = 0 /\ Len(Carried) <= MAX_RESULTS) =>
          /\ g_result_count = Len(Carried)
          /\ Len(g_results) = Len(Carried)
          /\ \A k \in 1 .. Len(Carried) : g_results[k].command_id = Carried[k].id

\* C8: a status-200 response whose body is a valid document without a
\* well-formed commands field makes the check-in succeed with no command,
\* and a status-200 response whose body does not parse at all makes it fail.
C8_UnparseableBodyIsAnError ==
    /\ (Answered200 /\ response.data.doc = "object"
            /\ response.data.field \in { "absent", "malformed" }) =>
          (checkin_result = 0 /\ (pc = "for" => command_count = 0))
    /\ (Answered200 /\ response.data.doc = "garbage") => checkin_result # 0

\* floor(base * percent / 100) in unbounded integers, for base >= 0.
MathJitterRange(base, percent) ==
    (base \div 100) * percent + ((base % 100) * percent) \div 100

ClaimedLow(base, percent) ==
    IF base - MathJitterRange(base, percent) < 1 THEN 1
    ELSE base - MathJitterRange(base, percent)

ClaimedHigh(base, percent) == base + MathJitterRange(base, percent)

\* C9: for every base interval >= 1 and jitter percent in 0..50 every sleep
\* duration the engine can choose lies in [max(1, base - jitterRange),
\* base + jitterRange], every integer of that range can be chosen, and for
\* base 60 and jitter percent 10 the durations are exactly 54..66.
C9_SleepRange ==
    (pc # "main" /\ g_config.sleep_interval >= 1
        /\ g_config.jitter_percent \in 0 .. MAX_JITTER) =>
    LET base  == g_config.sleep_interval
        pct   == g_config.jitter_percent
        times == SleepTimes(base, pct)
    IN  /\ \A t \in times : ClaimedLow(base, pct) <= t /\ t <= ClaimedHigh(base, pct)
        /\ \A k \in 1 .. Len(slept) :
              ClaimedLow(base, pct) <= slept[k] /\ slept[k] <= ClaimedHigh(base, pct)
        /\ \A t \in ClaimedLow(base, pct) .. ClaimedHigh(base, pct) : t \in times
        /\ (base = 60 /\ pct = 10) => times = 54 .. 66

\* sleep() takes an unsigned int: a negative argument is a wait of 2^32
\* minus its magnitude, and only 0 is a wait of less than a second.
AtLeastOneSecond(seconds) == seconds >= 1 \/ seconds < 0

\* C10: whatever base interval and jitter percent the engine was started
\* with, every sleep lasts at least 1 second.
C10_SleepAtLeastOneSecond ==
    \A k \in 1 .. Len(slept) : AtLeastOneSecond(slept[k])

\* The values a command line asks for with --jitter.
JitterRequests(a) ==
    { Atoi(a[k + 1]) : k \in { n \in 1 .. Len(a) - 1 : a[n] = "--jitter" } }

\* C11: whatever command line the engine was started with, a requested
\* --jitter value above 50 is stored as 50 and a requested value in 0..50 is
\* stored unchanged, and every sleep made is one that sleep_with_jitter can
\* choose for the base interval and that jitter percent.
C11_JitterClamped ==
    \A a \in CommandLines :
        (pc # "main" /\ Argc(a) >= 2 /\ g_config = ParseArgs(a)) =>
            \A v \in JitterRequests(a) :
                LET used == IF v > 50 THEN 50 ELSE v
                IN  v >= 0 =>
                      /\ g_config.jitter_percent = used
                      /\ \A k \in 1 .. Len(slept) :
                            slept[k] \in SleepTimes(g_config.sleep_interval, used)

\* The engine has slept after being started with --jitter 75.
C11_Witness ==
    /\ pc = "send"
    /\ Len(slept) = 1
    /\ g_config.jitter_percent = 50
    /\ \E a \in CommandLines :
          Argc(a) >= 2 /\ g_config = ParseArgs(a) /\ 75 \in JitterRequests(a)

\* The command about to be executed has a verb that is not handled.
UnknownVerbDispatched ==
    pc = "exec" /\ commands[i + 1].command \notin { "shell", "pwd", "exit" }

\* C12: executing a command whose verb is not shell, pwd or exit writes a
\* result with the command's identifier, success false and the output
\* "Unknown command: " followed by the verb, leaves running unchanged, and
\* the dispatch loop goes on to count the result.
C12_UnknownVerbResult ==
    [][ UnknownVerbDispatched =>
          LET result == g_results'[g_result_count + 1]
          IN  /\ result.command_id = commands[i + 1].id
              /\ result.success = 0
              /\ result.output = "Unknown command: " \o commands[i + 1].command
              /\ Len(g_results') = g_result_count + 1
              /\ g_running' = g_running
              /\ pc' = "inc"
              /\ exit_code' = -1 ]_vars

\* The verb frobnicate has been dispatched.
C12_Witness ==
    /\ pc = "inc"
    /\ g_results[g_result_count + 1].command_id = "c1"
    /\ g_results[g_result_count + 1].success = 0
    /\ g_results[g_result_count + 1].output = "Unknown command: frobnicate"
    /\ g_running = 1

\* The number of characters a subprocess wrote.
RECURSIVE Emitted(_, _)
Emitted(chunks, k) ==
    IF k > Len(chunks) THEN 0 ELSE Len(chunks[k]) + Emitted(chunks, k + 1)

\* C13: a shell command that wrote more than the output field can hold
\* (MAX_OUTPUT_SIZE - 1 characters before the terminator) has its captured
\* output truncated to exactly that many characters, and no captured output
\* is longer than the field.
C13_ShellOutputTruncatedToLimit ==
    (pc = "inc" /\ commands[i + 1].command = "shell") =>
        \A run \in ShellRuns :
            (run.popen_ok
                /\ g_results[g_result_count + 1] = ExecuteCommand(commands[i + 1], run)) =>
            /\ Len(g_results[g_result_count + 1].output) <= MAX_OUTPUT_SIZE - 1
            /\ Emitted(run.chunks, 1) > MAX_OUTPUT_SIZE - 1 =>
                  Len(g_results[g_result_count + 1].output) = MAX_OUTPUT_SIZE - 1

---------------------------------------------------------------------------
(* A decoder of the result-bearing check-in, as the wire format (JSON)     *)
(* defines it                                                              *)

\* Characters that may not appear unescaped inside a JSON string.
ControlChars == { "\n", "\t", "\r", "\f" }

Min(S) == CHOOSE x \in S : \A y \in S : x <= y

\* The number of backslashes that immediately precede position k.
RECURSIVE BackslashesBefore(_, _)
BackslashesBefore(s, k) ==
    IF k > 1 /\ CharAt(s, k - 1) = "\\" THEN 1 + BackslashesBefore(s, k - 1) ELSE 0

\* The position of the quote that closes the string whose content starts at
\* from; 0 when it is not closed.
ClosingQuote(s, from) ==
    LET quotes == { k \in from .. Len(s) :
                      CharAt(s, k) = "\"" /\ BackslashesBefore(s, k) % 2 = 0 }
    IN  IF quotes = { } THEN 0 ELSE Min(quotes)

\* The value of the escape sequence \c; "" when there is none.
EscapeValue(c) ==
    CASE c = "\"" -> "\"" [] c = "\\" -> "\\" [] c = "/" -> "/"
      [] c = "n" -> "\n" [] c = "t" -> "\t" [] c = "r" -> "\r" [] c = "f" -> "\f"
      [] OTHER -> ""

\* The string a string body stands for; ok is FALSE when the body holds an
\* unescaped control character or a bad escape.
RECURSIVE Unescape(_, _, _)
Unescape(body, k, acc) ==
    IF k > Len(body) THEN [ ok |-> TRUE, value |-> acc ]
    ELSE IF CharAt(body, k) \in ControlChars THEN [ ok |-> FALSE, value |-> acc ]
    ELSE IF CharAt(body, k) # "\\" THEN Unescape(body, k + 1, acc \o CharAt(body, k))
    ELSE IF k = Len(body) \/ EscapeValue(CharAt(body, k + 1)) = ""
         THEN [ ok |-> FALSE, value |-> acc ]
    ELSE Unescape(body, k + 2, acc \o EscapeValue(CharAt(body, k + 1)))

StringValue(body) ==
    IF \A k \in 1 .. Len(body) : CharAt(body, k) \notin ControlChars \cup { "\\" }
    THEN [ ok |-> TRUE, value |-> body ]
    ELSE Unescape(body, 1, "")

\* s continues with lit at pos.
Expect(s, pos, lit) ==
    pos >= 1 /\ pos + Len(lit) - 1 <= Len(s) /\ SubSeq(s, pos, pos + Len(lit) - 1) = lit

\* A string after the literal lit at pos: its value and the position after
\* its closing quote; next is 0 when there is no such string.
ParseString(s, pos, lit) ==
    LET from  == pos + Len(lit) + 1
        close == ClosingQuote(s, from)
        str   == StringValue(SubSeq(s, from, close - 1))
    IN  IF Expect(s, pos, lit \o "\"") /\ close # 0 /\ str.ok
        THEN [ value |-> str.value, next |-> close + 1 ]
        ELSE [ value |-> "", next |-> 0 ]

\* true or false after the literal lit at pos.
ParseBool(s, pos, lit) ==
    IF Expect(s, pos, lit \o "true")
    THEN [ value |-> 1, next |-> pos + Len(lit) + 4 ]
    ELSE IF Expect(s, pos, lit \o "false")
    THEN [ value |-> 0, next |-> pos + Len(lit) + 5 ]
    ELSE [ value |-> 0, next |-> 0 ]

\* One result record at pos.
ParseResult(s, pos) ==
    LET id  == ParseString(s, pos, "{\"command_id\":")
        suc == ParseBool(s, id.next, ",\"success\":")
        out == ParseString(s, suc.next, ",\"output\":")
        ts  == ParseString(s, out.next, ",\"timestamp\":")
    IN  IF id.next # 0 /\ suc.next # 0 /\ out.next # 0 /\ ts.next # 0
           /\ Expect(s, ts.next, "}")
        THEN [ value |-> [ command_id |-> id.value, success |-> suc.value,
                           output |-> out.value ],
               next |-> ts.next + 1 ]
        ELSE [ value |-> << >>, next |-> 0 ]

\* The records of the command_results array from pos to the end of s.
RECURSIVE ParseResults(_, _, _)
ParseResults(s, pos, acc) ==
    IF Expect(s, pos, "]}") /\ pos + 1 = Len(s) THEN [ ok |-> TRUE, results |-> acc ]
    ELSE LET at == IF acc = << >> THEN pos
                   ELSE IF Expect(s, pos, ",") THEN pos + 1 ELSE 0
             r  == ParseResult(s, at)
         IN  IF at = 0 \/ r.next = 0 THEN [ ok |-> FALSE, results |-> acc ]
             ELSE ParseResults(s, r.next, Append(acc, r.value))

\* The results a result-bearing check-in carries; ok is FALSE when the text
\* is not a document of the wire format.
DecodeResults(s) ==
    LET id == ParseString(s, 1, "{\"beacon_id\":")
        ts == ParseString(s, id.next, ",\"timestamp\":")
    IN  IF id.next # 0 /\ ts.next # 0 /\ Expect(s, ts.next, ",\"command_results\":[")
        THEN ParseResults(s, ts.next + Len(",\"command_results\":["), << >>)
        ELSE [ ok |-> FALSE, results |-> << >> ]

\* What a result holds besides its timestamp.
Triple(r) ==
    [ command_id |-> r.command_id, success |-> IF r.success # 0 THEN 1 ELSE 0,
      output |-> r.output ]

Triples(results, result_count) == [ k \in 1 .. result_count |-> Triple(results[k]) ]

\* a and b hold the same elements the same number of times.
SameMultiset(a, b) ==
    /\ Len(a) = Len(b)
    /\ \A k \in 1 .. Len(a) :
          Cardinality({ n \in 1 .. Len(a) : a[n] = a[k] })
              = Cardinality({ n \in 1 .. Len(b) : b[n] = a[k] })

\* C14: the data of every result-bearing check-in is a document of the wire
\* format, and decoding it yields the same multiset of {command_id,
\* success, output} triples as the result buffer it was encoded from.
C14_ResultsRoundTrip ==
    (pc = "recv" /\ request.body = "command_results") =>
        LET sent == DecodeResults(ResultsDataSent(g_config, g_results, g_result_count))
        IN  /\ sent.ok
            /\ SameMultiset(sent.results, Triples(g_results, g_result_count))

\* C15: when the controller URL has the scheme https, every check-in
\* request on the wire travels over a TLS connection, with the verify flag
\* set or not; none is sent in plaintext.
C15_HttpsNeverPlaintext ==
    (pc \in { "start_recv", "recv" } /\ HasPrefix(g_config.server_url, "https://")) =>
        request.channel = "tls"

\* C16: a command reached while the result buffer already holds 64
\* results is still executed and only its result is dropped: once the
\* dispatch loop has passed a termination verb in position 65 or later,
\* running is false, and the buffer still holds 64 results.
C16_FullBufferStillExecutes ==
    pc = "for" =>
        \A k \in (MAX_RESULTS + 1) .. i :
            /\ g_result_count = MAX_RESULTS
            /\ commands[k].command = "exit" => g_running = 0

\* The step is the first check-in succeeding.
FirstCheckinSucceeds ==
    pc = "start_recv" /\ response'.transport = "ok" /\ checkin_result' = 0
        /\ pc' = "enter"

\* The step is the execution of a termination verb.
ExitDispatched == pc = "exec" /\ commands[i + 1].command = "exit"

\* C17: running is false until the first check-in succeeds; it becomes true
\* by a successful first check-in and by nothing else, becomes false again
\* by the execution of the termination verb and by nothing else (no failed
\* check-in, unknown verb or failed command changes it), and once false
\* again it stays false.
C17_RunningFlagLifecycle ==
    /\ [][ g_running' # g_running =>
             \/ g_running = 0 /\ g_running' = 1 /\ FirstCheckinSucceeds
             \/ g_running = 1 /\ g_running' = 0 /\ ExitDispatched ]_vars
    /\ [][ FirstCheckinSucceeds => g_running' = 1 ]_vars
    /\ [][ ExitDispatched => g_running' = 0 ]_vars
    /\ [][ (g_running = 0 /\ pc # "start_recv") => g_running' = 0 ]_vars
    /\ [](pc \in { "main", "start", "start_recv" } => g_running = 0)

\* A command has been executed after a termination verb of the same list.
C17_Witness ==
    /\ pc = "inc"
    /\ i >= 1
    /\ commands[i].command = "exit"
    /\ commands[i + 1].command # "exit"
    /\ g_running = 0

\* The result execute_command writes for the termination verb.
IsExitResult(r) == r.success = 1 /\ r.output = "Beacon shutting down"

\* running is false and it was a termination verb that cleared it.
RunningClearedByExit ==
    g_running = 0 /\ pc \notin { "main", "start", "start_recv" } /\ exit_code # 1

\* C18, as stated: whenever running is false because of the termination
\* verb, the result of that command is already counted in the result
\* buffer.
C18_RunningFalseOnlyAfterCounted ==
    RunningClearedByExit =>
        \E k \in 1 .. g_result_count : IsExitResult(g_results[k])

\* C18, amended: executing the termination verb writes its result to the
\* next free slot of the result buffer and clears running in the same call,
\* before the result is counted; the result is counted by the time the
\* dispatch loop goes on, so it is counted whenever the main loop tests
\* running; and from that test the engine stops with status 0 without
\* sleeping and without sending a request.
C18_RunningFalseOnceWritten ==
    /\ [][ ExitDispatched =>
             /\ IsExitResult(g_results'[g_result_count + 1])
             /\ g_results'[g_result_count + 1].command_id = commands[i + 1].id
             /\ g_result_count' = g_result_count
             /\ g_running' = 0
             /\ pc' = "inc" ]_vars
    /\ [](RunningClearedByExit =>
             \E k \in 1 .. Len(g_results) :
                 /\ IsExitResult(g_results[k])
                 /\ k <= g_result_count \/ (pc = "inc" /\ k = g_result_count + 1))
    /\ [][ (pc = "loop" /\ g_running = 0) =>
             /\ pc' = "stopped"
             /\ exit_code' = 0
             /\ request' = NoRequest
             /\ UNCHANGED << slept, g_results, g_result_count >> ]_vars

\* The engine has stopped after a termination verb whose result is counted.
C18_Witness ==
    /\ pc = "stopped"
    /\ exit_code = 0
    /\ g_running = 0
    /\ \E k \in 1 .. g_result_count : IsExitResult(g_results[k])

\* The number of commands of the last response that were executed.
Dispatched == IF Len(Carried) < MAX_RESULTS THEN Len(Carried) ELSE MAX_RESULTS

\* C19: once the termination verb has been executed the engine neither
\* sleeps nor checks in again and no request is on the wire; no result is
\* removed from the result buffer; and when the process has stopped with
\* status 0 the buffer still holds the result of the termination verb and
\* every other result produced in that cycle, in order.
C19_ExitResultNeverSent ==
    /\ [](RunningClearedByExit =>
             pc \in { "for", "exec", "inc", "loop", "stopped" } /\ request = NoRequest)
    /\ [][ RunningClearedByExit =>
             /\ pc' \in { "for", "exec", "inc", "loop", "stopped" }
             /\ request' = NoRequest
             /\ g_result_count' >= g_result_count
             /\ SubSeq(g_results', 1, g_result_count) = SubSeq(g_results, 1, g_result_count)
             /\ slept' = slept ]_vars
    /\ [](( pc = "stopped" /\ exit_code = 0) =>
             /\ g_result_count = Dispatched
             /\ Len(g_results) = Dispatched
             /\ \A k \in 1 .. Dispatched : g_results[k].command_id = Carried[k].id
             /\ \E k \in 1 .. Dispatched :
                   Carried[k].command = "exit" /\ IsExitResult(g_results[k]))

\* The process has stopped with the result of a termination verb, and a
\* result produced after it, still in the buffer.
C19_Witness ==
    /\ pc = "stopped"
    /\ exit_code = 0
    /\ g_result_count = 2
    /\ IsExitResult(g_results[1])
    /\ g_results[2].output = "/opt/beacon"

\* C20: whenever a result-bearing check-in request has been sent, every
\* offset reached while its results were encoded was within the 8192-byte
\* message buffer, so that the capacity handed to each write was not
\* negative, and the length of the request handed to send() was within the
\* 8192-byte request buffer; a buffer that does not fit is not sent.
C20_EncodingWithinBuffers ==
    (pc = "recv" /\ request.body = "command_results") =>
        /\ \A k \in 1 .. g_result_count :
              LET ends == ResultOffsets(g_results, g_result_count, 1,
                                        ResultsHeadLen(g_config.beacon_id), << >>)
              IN  k <= Len(ends) => ends[k] <= 8192
        /\ ResultsRequestLen(g_config, g_results, g_result_count) <= 8192

\* C21: the first check-in carries the host snapshot and no later check-in
\* does; every loop check-in made with an empty result buffer sends a body
\* holding the identifier and the timestamp only; every loop check-in made
\* with a non-empty result buffer sends a body holding the identifier, the
\* timestamp and the results.
C21_RequestShapeFollowsState ==
    /\ [][ (pc = "start" /\ pc' = "start_recv") =>
              request'.body = "system_info" ]_vars
    /\ [][ (pc = "send" /\ pc' = "recv") =>
              /\ request'.body # "system_info"
              /\ g_result_count = 0 => request'.body = "id_timestamp"
              /\ g_result_count > 0 => request'.body = "command_results" ]_vars

\* C22: whenever a check-in request has left, the controller URL held in
\* the configuration (at most 511 characters) was split by parse_url within
\* its caller's buffers: the host name and its terminator within the 256
\* bytes of hostname[], the path and its terminator within the 512 bytes of
\* path[]; a URL that does not fit is reported as an error and no request
\* leaves.
C22_ParseUrlWithinBuffers ==
    pc \in { "start_recv", "recv" } =>
        /\ Len(g_config.server_url) <= 511
        /\ ParseUrlWrites(g_config.server_url).hostname <= 256
        /\ ParseUrlWrites(g_config.server_url).path <= 512

\* The dispatch loop is at work on a command list and running is already
\* false: a termination verb of this list has been executed.
DispatchingAfterExit == g_running = 0 /\ pc \in { "for", "exec", "inc" }

\* C23: the execution of the termination verb does not cut the command list
\* short. While running is false the dispatch loop still takes every
\* following command of the list, executes it and appends and counts its
\* result as long as the result buffer has room (fewer than 64 results),
\* and running stays false; the loop is left only at the end of the list,
\* and the process stops only then, with every command of the list up to
\* the capacity answered by a result.
C23_ListProcessedAfterExit ==
    /\ [][ (DispatchingAfterExit /\ pc = "for") =>
              IF i < command_count
              THEN IF g_result_count < 64
                   THEN pc' = "exec" /\ i' = i
                   ELSE pc' = "for" /\ i' = i + 1
              ELSE pc' = "loop" ]_vars
    /\ [][ (DispatchingAfterExit /\ pc = "exec") =>
              /\ Len(g_results') = g_result_count + 1
              /\ g_results'[g_result_count + 1].command_id = commands[i + 1].id
              /\ SubSeq(g_results', 1, g_result_count)
                     = SubSeq(g_results, 1, g_result_count)
              /\ pc' = "inc" ]_vars
    /\ [][ (DispatchingAfterExit /\ pc = "inc") =>
              /\ g_result_count' = g_result_count + 1
              /\ i' = i + 1
              /\ pc' = "for" ]_vars
    /\ [][ DispatchingAfterExit => g_running' = 0 ]_vars
    /\ []((g_running = 0 /\ (pc = "loop" \/ (pc = "stopped" /\ exit_code = 0))) =>
             /\ g_result_count = Dispatched
             /\ \A k \in 1 .. Dispatched : g_results[k].command_id = Carried[k].id)

\* The result of a command that follows the termination verb in its list
\* has been written while running is false.
C23_Witness ==
    /\ pc = "inc"
    /\ g_running = 0
    /\ i >= 1
    /\ commands[1].command = "exit"
    /\ commands[i + 1].command = "pwd"
    /\ g_results[g_result_count + 1].command_id = commands[i + 1].id
    /\ g_results[g_result_count + 1].output = "/opt/beacon"

\* C24: the commands carried by the response to the first check-in are
\* never executed and produce no result. When the first check-in succeeds,
\* whatever command list its response carries (the termination verb
\* included), running becomes true, the result buffer is empty and no
\* command is held for dispatch; the engine then enters its loop and
\* sleeps before anything else.
C24_FirstResponseCommandsIgnored ==
    /\ [][ (pc = "start_recv" /\ checkin_result' = 0) =>
              /\ pc' = "enter"
              /\ g_running' = 1
              /\ g_result_count' = 0
              /\ g_results' = << >>
              /\ commands' = << >>
              /\ command_count' = 0 ]_vars
    /\ [](pc = "enter" =>
             /\ g_running = 1
             /\ g_result_count = 0
             /\ g_results = << >>
             /\ commands = << >>)
    /\ [][ pc = "enter" =>
              /\ pc' = "sleep"
              /\ g_running' = 1
              /\ UNCHANGED << g_results, g_result_count, commands >> ]_vars

\* The first check-in has succeeded with a response that carries the
\* termination verb, and the engine is about to enter its loop.
C24_Witness ==
    /\ pc = "enter"
    /\ Answered200
    /\ CarriesExit
    /\ Carried[1].command = "exit"
    /\ g_running = 1
    /\ g_result_count = 0

=============================================================================
